---------------------------- MODULE Spec2Model ----------------------------
(***************************************************************************)
(* A model of the keypom-js SDK: the process-wide session of keypom.ts     *)
(* (initKeypom, updateFunder, updateKeypomContractId), claim of claims.ts, *)
(* the two addKeys implementations and deleteKeys of the keys module,      *)
(* trialCallMethod and getAccountFromMap of the trial accounts, claim      *)
(* calls that overlap, and one drop of the Keypom contract as addKeys and  *)
(* deleteKeys change it.                                                   *)
(*                                                                         *)
(* Amounts are yoctoNEAR counted in units of 10^23, so that                *)
(* parseNearAmount('0.2') is 2.  Appending the same run of zeros to two    *)
(* decimal strings does not change their lexicographic order, so string    *)
(* comparisons of amounts are the same in either unit.                     *)
(***************************************************************************)
EXTENDS Integers, Sequences, FiniteSets, TLC

VARIABLES
    near,            \* keypom.ts:39  the connection, identified by its network
    networkId,       \* keypom.ts:39
    keyStore,        \* keypom.ts:39  [defined, keys]: keys is a set of <<network, account, key>>
    viewAccount,     \* keypom.ts:39
    contractId,      \* keypom.ts:36
    receiverId,      \* keypom.ts:37
    contractAccount, \* keypom.ts:39
    fundingAccount,  \* keypom.ts:39
    fundingKey,      \* keypom.ts:39
    last,            \* what the call in progress did and returned; op = "none" when no call is pending
    funderPassed,    \* the funder argument of the latest initKeypom or successful updateFunder
    claimCalls,      \* claims.ts:75  the claim calls in flight, by caller
    ledger           \* the drop on the Keypom contract and the drop object the caller holds

vars == <<near, networkId, keyStore, viewAccount, contractId, receiverId,
          contractAccount, fundingAccount, fundingKey, last, funderPassed,
          claimCalls, ledger>>

session == <<near, networkId, keyStore, viewAccount, contractId, receiverId,
             contractAccount, fundingAccount, fundingKey>>

----------------------------------------------------------------------------
(* Bounds of the model *)

MaxKeys == 2
MaxDepositPerUse == 2
MaxUsesPerKey == 2
MaxBalancePerUse == 2
MaxRegisteredUses == 1
MaxNftTokenIds == 3
MaxNextKeyId == 2
MaxTrialDeposit == 2

----------------------------------------------------------------------------
(* Values *)

Undefined == "undefined"

Networks == {"testnet", "mainnet"}

contractBase == "v1-3.keypom"

TestnetContract == "v1-3.keypom.testnet"
MainnetContract == "v1-3.keypom.near"
OtherContract == "v2.keypom.testnet"

Accounts == {"alice", "bob"}

\* The secret key a funder record carries for its account.
SecretKeyOf(accountId) ==
    CASE accountId = "alice" -> "sk_alice"
      [] accountId = "bob" -> "sk_bob"
      [] OTHER -> Undefined

LinkdropKeys == {"sk_link1", "sk_link2"}

networks(n) ==
    [networkId |-> n,
     viewAccountId |-> IF n = "mainnet" THEN "near" ELSE "testnet"]

----------------------------------------------------------------------------
(* Decimal strings: amounts travel as strings and JavaScript compares two  *)
(* strings code unit by code unit.                                         *)

RECURSIVE toString(_)
toString(n) ==
    IF n < 10 THEN <<n>> ELSE Append(toString(n \div 10), n % 10)

RECURSIVE StringLess(_, _)
StringLess(s, t) ==
    IF t = <<>> THEN FALSE
    ELSE IF s = <<>> THEN TRUE
    ELSE IF Head(s) # Head(t) THEN Head(s) < Head(t)
    ELSE StringLess(Tail(s), Tail(t))

----------------------------------------------------------------------------
(* The key store of near-api-js: setKey replaces the entry of the account. *)

setKey(ks, net, accountId, key) ==
    [defined |-> TRUE,
     keys |-> {e \in ks.keys : ~(e[1] = net /\ e[2] = accountId)}
                \cup {<<net, accountId, key>>}]

NewKeyStore == [defined |-> TRUE, keys |-> {}]

----------------------------------------------------------------------------
(* Transactions *)

NoAction ==
    [methodName |-> "", drop_id |-> "", numKeys |-> 0, public_keys |-> <<>>,
     passwords_per_use |-> <<>>,
     deposit |-> -1, amount |-> 0, msg |-> "", receiver_id |-> "",
     account_id |-> Undefined, new_account_id |-> Undefined,
     new_public_key |-> Undefined]

Action(name) == [NoAction EXCEPT !.methodName = name]

Tx(receiver, actions) == [receiverId |-> receiver, actions |-> actions]

NoDrop ==
    [drop_id |-> "", owner_id |-> "", registered_uses |-> 0,
     deposit_per_use |-> 0, uses_per_key |-> 0, required_gas |-> 0,
     ft |-> [contract_id |-> Undefined, balance_per_use |-> 0],
     nft |-> [contract_id |-> Undefined], next_key_id |-> 0]

\* The outcome of an execution, as far as the SDK looks at it.
NoOutcome == [status |-> "", error_message |-> "", error_type |-> ""]

\* What a trial call was asked for and the policy it was checked against.
NoTrial == [contractId |-> "", methodName |-> "", deposit |-> 0, policy |-> {}]

\* The parameters of a claim call.
NoClaim ==
    [secretKey |-> Undefined, accountId |-> Undefined,
     newAccountId |-> Undefined, newPublicKey |-> Undefined]

\* passwordProtectedUses when the caller does not pass it.
NoUses == [given |-> FALSE, uses |-> <<>>]

\* The record of a call: what it was given, how far it got, what it sent.
NoCall ==
    [op |-> "none", impl |-> "", error |-> "",
     initialized |-> FALSE,
     account |-> Undefined, wallet |-> Undefined,
     signerResolved |-> FALSE, signer |-> Undefined, signedBy |-> Undefined,
     dropKnown |-> FALSE, drop |-> NoDrop,
     numKeys |-> 0, keysGenerated |-> 0,
     rootEntropyUsed |-> Undefined, metaEntropy |-> <<>>, keys |-> <<>>,
     estimated |-> FALSE, requiredDeposit |-> 0,
     useBalance |-> FALSE, userBal |-> 0,
     nftTokenIds |-> 0, returnTransactions |-> FALSE,
     withdrawBalance |-> FALSE,
     views |-> 0, keyStoreWrites |-> 0,
     batch |-> <<>>, sent |-> <<>>, rejected |-> 0,
     returned |-> "none", sessionChanged |-> FALSE,
     outcome |-> NoOutcome, trial |-> NoTrial,
     keypomContractId |-> Undefined, claim |-> NoClaim,
     secretKey |-> Undefined, viewCalls |-> <<>>,
     basePassword |-> Undefined, passwordProtectedUses |-> NoUses]

Call(op, impl) ==
    [NoCall EXCEPT !.op = op, !.impl = impl, !.initialized = (near # Undefined)]

Idle == last.op = "none"

----------------------------------------------------------------------------
(* keypom.ts *)

getAccount(account, wallet) ==
    IF account # Undefined THEN account
    ELSE IF wallet # Undefined THEN wallet
    ELSE fundingAccount

\* The ledger client: the batch is signed and sent one transaction after the
\* other and stops at the first one the ledger rejects (rejectAt, 0 = none).
\* Without a wallet the account signs, else the funder.  Handed a wallet and
\* a different account, the client signs with one of them: signers holds
\* both, and the caller of _execute sees either.
_execute(transactions, account, wallet, funder, rejectAt) ==
    LET nearAccount == IF account # Undefined THEN account ELSE funder
        signers == IF wallet = Undefined THEN {nearAccount}
                   ELSE IF account = Undefined THEN {wallet}
                   ELSE {wallet, account}
    IN
    IF wallet = Undefined /\ nearAccount = Undefined
    THEN [error |-> "no_signer", sent |-> <<>>, rejected |-> 0, signers |-> {Undefined}]
    ELSE IF wallet = Undefined /\ nearAccount \notin Accounts \cup {TestnetContract, MainnetContract, OtherContract}
    THEN [error |-> "type_error", sent |-> <<>>, rejected |-> 0, signers |-> {Undefined}]
    ELSE IF rejectAt >= 1 /\ rejectAt <= Len(transactions)
    THEN [error |-> "tx_rejected", sent |-> SubSeq(transactions, 1, rejectAt),
          rejected |-> rejectAt, signers |-> signers]
    ELSE [error |-> "", sent |-> transactions, rejected |-> 0,
          signers |-> IF Len(transactions) = 0 THEN {Undefined} ELSE signers]

execute(transactions, account, wallet, rejectAt) ==
    _execute(transactions, account, wallet, fundingAccount, rejectAt)

\* contractAccount = new Account(connection, contractId), after contractId
\* has got its value for this call.
\* Mutant: the account is built before contractId is assigned.
initKeypomContractAccount_early(newContractId) == contractId

initKeypomContractAccount(newContractId) == newContractId

initKeypom(nearInputs, networkInputs, funderInputs, contractInputs) ==
    /\ Idle
    /\ \E _near \in nearInputs, network \in networkInputs,
          funder \in funderInputs, keypomContractId \in contractInputs :
        LET newNear == IF _near # Undefined THEN _near ELSE networks(network).networkId
            newNetworkId == newNear
            afterMainnet == IF newNetworkId = "mainnet" THEN MainnetContract ELSE contractId
            newContractId == IF keypomContractId # Undefined THEN keypomContractId
                             ELSE afterMainnet
        IN
        /\ near' = newNear
        /\ networkId' = newNetworkId
        /\ contractId' = newContractId
        /\ receiverId' = newContractId
        /\ viewAccount' = networks(newNetworkId).viewAccountId
        /\ contractAccount' = initKeypomContractAccount(newContractId)
        /\ funderPassed' = funder
        /\ UNCHANGED <<claimCalls, ledger>>
        /\ IF funder # Undefined
           THEN /\ fundingKey' = SecretKeyOf(funder)
                /\ keyStore' = setKey(NewKeyStore, newNetworkId, funder, SecretKeyOf(funder))
                /\ fundingAccount' = funder
           ELSE /\ keyStore' = NewKeyStore
                /\ UNCHANGED <<fundingKey, fundingAccount>>
        /\ last' = [Call("initKeypom", "keypom.ts") EXCEPT
                      !.keypomContractId = keypomContractId,
                      !.keyStoreWrites = IF funder # Undefined THEN 1 ELSE 0,
                      !.returned = IF funder # Undefined THEN funder ELSE "null",
                      !.sessionChanged = TRUE]

\* fundingAccount = new Account(connection, accountId)
\* Mutant: the account of the funder in effect is kept.
updateFunderAccount_kept(accountId) == fundingAccount

updateFunderAccount(accountId) == accountId

updateFunder ==
    /\ Idle
    /\ \E funder \in Accounts :
        IF near = Undefined
        THEN /\ last' = [Call("updateFunder", "keypom.ts") EXCEPT !.error = "not_initialized"]
             /\ UNCHANGED <<session, funderPassed, claimCalls, ledger>>
        ELSE /\ fundingKey' = SecretKeyOf(funder)
             /\ keyStore' = setKey(keyStore, networkId, funder, SecretKeyOf(funder))
             /\ fundingAccount' = updateFunderAccount(funder)
             /\ funderPassed' = funder
             /\ UNCHANGED <<claimCalls, ledger>>
             /\ last' = [Call("updateFunder", "keypom.ts") EXCEPT
                           !.keyStoreWrites = 1, !.returned = "null",
                           !.sessionChanged = TRUE]
             /\ UNCHANGED <<near, networkId, viewAccount, contractId, receiverId,
                            contractAccount>>

\* After the check of near the body reads `funder`, a name that is bound
\* nowhere in the function or the module: the read throws a ReferenceError
\* and nothing is assigned.
updateKeypomContractId ==
    /\ Idle
    /\ \E keypomContractId \in {TestnetContract, MainnetContract, OtherContract} :
        /\ last' = [Call("updateKeypomContractId", "keypom.ts") EXCEPT
                      !.keypomContractId = keypomContractId,
                      !.error = IF near = Undefined THEN "not_initialized"
                                ELSE "reference_error"]
        /\ UNCHANGED <<session, funderPassed, claimCalls, ledger>>

----------------------------------------------------------------------------
(* claims.ts *)

\* Mutant: a call that names an existing account claims to it.
claimTransactions_accountFirst(rcv, accountId, newAccountId, newPublicKey) ==
    <<Tx(rcv, <<IF accountId = Undefined
                THEN [Action("create_account_and_claim") EXCEPT
                        !.new_account_id = newAccountId,
                        !.new_public_key = newPublicKey]
                ELSE [Action("claim") EXCEPT !.account_id = accountId]>>)>>

\* One transaction of one FunctionCall action; params carry no deposit.
claimTransactions(rcv, accountId, newAccountId, newPublicKey) ==
    <<Tx(rcv, <<IF newAccountId # Undefined
                THEN [Action("create_account_and_claim") EXCEPT
                        !.new_account_id = newAccountId,
                        !.new_public_key = newPublicKey]
                ELSE [Action("claim") EXCEPT !.account_id = accountId]>>)>>

\* Mutant: the parameters are not checked.
claimParamError_unchecked(accountId, newAccountId, newPublicKey) == ""

\* The two throws that precede the building of the transaction.
claimParamError(accountId, newAccountId, newPublicKey) ==
    IF newAccountId # Undefined /\ newPublicKey = Undefined
    THEN "missing_new_public_key"
    ELSE IF newAccountId = Undefined /\ accountId = Undefined
    THEN "missing_account"
    ELSE ""

claim ==
    /\ Idle
    /\ UNCHANGED <<funderPassed, claimCalls, ledger>>
    /\ \E secretKey \in LinkdropKeys,
          accountId \in {Undefined, "alice"},
          newAccountId \in {Undefined, "carol"},
          newPublicKey \in {Undefined, "pk_new"} :
        LET c0 == [Call("claim", "claims.ts") EXCEPT
                     !.claim = [secretKey |-> secretKey, accountId |-> accountId,
                                newAccountId |-> newAccountId,
                                newPublicKey |-> newPublicKey]]
            paramError == claimParamError(accountId, newAccountId, newPublicKey)
        IN
        IF ~keyStore.defined
        THEN \* keyStore.setKey on undefined
             /\ last' = [c0 EXCEPT !.error = "type_error"]
             /\ UNCHANGED session
        ELSE
        /\ keyStore' = setKey(keyStore, networkId, contractId, secretKey)
        /\ UNCHANGED <<near, networkId, viewAccount, contractId, receiverId,
                       contractAccount, fundingAccount, fundingKey>>
        /\ IF paramError # ""
           THEN last' = [c0 EXCEPT !.error = paramError,
                                   !.keyStoreWrites = 1, !.sessionChanged = TRUE]
           ELSE \E rejectAt \in 0..1 :
                LET transactions == claimTransactions(receiverId, accountId,
                                                      newAccountId, newPublicKey)
                    r == execute(transactions, contractAccount, Undefined, rejectAt)
                IN \E signedBy \in r.signers :
                   last' = [c0 EXCEPT
                              !.error = r.error, !.keyStoreWrites = 1,
                              !.signerResolved = TRUE, !.signer = contractAccount,
                              !.batch = transactions, !.sent = r.sent,
                              !.rejected = r.rejected, !.signedBy = signedBy,
                              !.returned = IF r.error = "" THEN "responses" ELSE "none",
                              !.sessionChanged = TRUE]

----------------------------------------------------------------------------
(* claims.ts, step by step: claim calls that overlap.  A call runs up to   *)
(* `await keyStore.setKey(...)`, which has written the key when it         *)
(* suspends; resumed, it checks its parameters, builds the transaction and *)
(* calls execute, which suspends before the ledger client signs.           *)

ClaimCallers == {"first", "second"}

NoClaimCall ==
    [pc |-> "idle", secretKey |-> Undefined, accountId |-> Undefined,
     error |-> "", batch |-> <<>>, sent |-> <<>>, signedWith |-> Undefined]

NoClaimInFlight == \A p \in ClaimCallers : claimCalls[p].pc = "idle"

\* keyStore.getKey(networkId, accountId), as the signer of the connection
\* calls it when it signs for accountId.
getKey(ks, net, accountId) ==
    IF \E e \in ks.keys : e[1] = net /\ e[2] = accountId
    THEN (CHOOSE e \in ks.keys : e[1] = net /\ e[2] = accountId)[3]
    ELSE Undefined

\* execute({ transactions, account: contractAccount }): the call hands over
\* the account, not its key pair; the key is looked up when signing.
claimSigningKey(ks, net, accountId, secretKey) == getKey(ks, net, accountId)

\* const keyPair = KeyPair.fromString(secretKey); await keyStore.setKey(networkId, contractId, keyPair)
claimCall(p) ==
    /\ claimCalls[p].pc = "idle"
    /\ UNCHANGED <<near, networkId, viewAccount, contractId, receiverId,
                   contractAccount, fundingAccount, fundingKey, last, funderPassed,
                   ledger>>
    /\ \E secretKey \in LinkdropKeys, accountId \in {Undefined, "alice"} :
        LET c == [NoClaimCall EXCEPT !.secretKey = secretKey,
                                     !.accountId = accountId]
        IN
        IF ~keyStore.defined
        THEN /\ claimCalls' = [claimCalls EXCEPT
                                 ![p] = [c EXCEPT !.pc = "done", !.error = "type_error"]]
             /\ UNCHANGED keyStore
        ELSE /\ keyStore' = setKey(keyStore, networkId, contractId, secretKey)
             /\ claimCalls' = [claimCalls EXCEPT ![p] = [c EXCEPT !.pc = "setKey"]]

\* The continuation of the await: the two throws, the transaction, execute.
claimResume(p) ==
    /\ claimCalls[p].pc = "setKey"
    /\ UNCHANGED <<session, last, funderPassed, ledger>>
    /\ LET c == claimCalls[p]
           paramError == claimParamError(c.accountId, Undefined, Undefined)
       IN
       claimCalls' = [claimCalls EXCEPT ![p] =
           IF paramError # ""
           THEN [c EXCEPT !.pc = "done", !.error = paramError]
           ELSE [c EXCEPT !.pc = "execute",
                          !.batch = claimTransactions(receiverId, c.accountId,
                                                      Undefined, Undefined)]]

\* The ledger client signs the transaction for contractAccount and sends it.
claimSign(p) ==
    /\ claimCalls[p].pc = "execute"
    /\ UNCHANGED <<session, last, funderPassed, ledger>>
    /\ LET c == claimCalls[p] IN
       claimCalls' = [claimCalls EXCEPT ![p] =
           [c EXCEPT !.pc = "signed", !.sent = c.batch,
                     !.signedWith = claimSigningKey(keyStore, networkId,
                                                    contractAccount, c.secretKey)]]

\* The promise of the call settles and its caller goes on.
claimReturn(p) ==
    /\ claimCalls[p].pc \in {"signed", "done"}
    /\ UNCHANGED <<session, last, funderPassed, ledger>>
    /\ claimCalls' = [claimCalls EXCEPT ![p] = NoClaimCall]

----------------------------------------------------------------------------
(* Trial accounts: selector/core/types.ts and trial-accounts/trial-active *)

FAILED_EXECUTION_OUTCOME ==
    [status |-> "Failure", error_message |-> "Invalid Trial Action",
     error_type |-> "keypom-trial-error"]

SuccessOutcome == [NoOutcome EXCEPT !.status = "SuccessValue"]

GuestBook == "guest-book.examples.keypom.testnet"
MappingContract == "v1.mapping.keypom.testnet"

\* The policies a trial account may carry: allowed (contractId, methodName)
\* pairs, each with the most one call may attach.
TrialPolicies ==
    {{},
     {[contractId |-> GuestBook, methodName |-> "add_message", maxDeposit |-> 1]},
     {[contractId |-> GuestBook, methodName |-> "add_message", maxDeposit |-> 1],
      [contractId |-> MappingContract, methodName |-> "set",
       maxDeposit |-> MaxTrialDeposit]}}

\* Mutant: every call is let through to the network.
trialPolicyAllows_anything(policy, cid, methodName, deposit) == TRUE

trialPolicyAllows(policy, cid, methodName, deposit) ==
    \E e \in policy :
        /\ e.contractId = cid
        /\ e.methodName = methodName
        /\ deposit <= e.maxDeposit

\* A call the policy does not allow is answered with the fixed outcome and
\* goes nowhere; an allowed one is sent as one transaction of one action.
trialCallMethod ==
    /\ Idle
    /\ UNCHANGED <<session, funderPassed, claimCalls, ledger>>
    /\ \E policy \in TrialPolicies, cid \in {GuestBook, MappingContract},
          methodName \in {"add_message", "set"}, deposit \in 0..MaxTrialDeposit :
        LET c0 == [Call("trialCallMethod", "trial-active") EXCEPT
                     !.trial = [contractId |-> cid, methodName |-> methodName,
                                deposit |-> deposit, policy |-> policy]]
            transactions ==
                <<Tx(cid, <<[Action(methodName) EXCEPT !.deposit = deposit]>>)>>
        IN
        IF ~trialPolicyAllows(policy, cid, methodName, deposit)
        THEN last' = [c0 EXCEPT !.outcome = FAILED_EXECUTION_OUTCOME,
                                !.returned = "outcome"]
        ELSE \E rejectAt \in 0..1 :
            last' = [c0 EXCEPT
                       !.batch = transactions, !.sent = transactions,
                       !.rejected = rejectAt,
                       !.error = IF rejectAt = 1 THEN "tx_rejected" ELSE "",
                       !.outcome = IF rejectAt = 1 THEN NoOutcome ELSE SuccessOutcome,
                       !.returned = IF rejectAt = 1 THEN "none" ELSE "outcome"]

----------------------------------------------------------------------------
(* Trial accounts: the lookup of an account in the mapping contract        *)
(* (part_004)                                                              *)

\* KeyPair.fromString reads "ed25519:<data>" and "<data>" as the same key
\* pair: two secret key strings, one public key.
LookupSecretKeys == {"ed25519:sk_trial", "sk_trial", "ed25519:sk_guest"}

getPubFromSecret(secretKey) ==
    CASE secretKey \in {"ed25519:sk_trial", "sk_trial"} -> "ed25519:pk_trial"
      [] secretKey = "ed25519:sk_guest" -> "ed25519:pk_guest"
      [] OTHER -> Undefined

accountMappingContract(network) ==
    IF network = "mainnet" THEN "v1.mapping.keypom.near" ELSE MappingContract

\* Mutant: the secret key travels with the arguments of the view call.
getAccountFromMapCall_withSecret(mapping, secretKey) ==
    [contractId |-> mapping, methodName |-> "get_account_id",
     args |-> {<<"pk", getPubFromSecret(secretKey)>>, <<"secretKey", secretKey>>}]

\* let pk = getPubFromSecret(secretKey);
\* viewCall({contractId: accountMappingContract[networkId], methodName: 'get_account_id', args: {pk}})
\* args: the set of <<name, value>> pairs of the argument object.
getAccountFromMapCall(mapping, secretKey) ==
    [contractId |-> mapping, methodName |-> "get_account_id",
     args |-> {<<"pk", getPubFromSecret(secretKey)>>}]

\* The view goes out through the view account; the mapping answers with the
\* account registered for the public key, or with null.
getAccountFromMap ==
    /\ Idle
    /\ UNCHANGED <<session, funderPassed, claimCalls, ledger>>
    /\ \E secretKey \in LookupSecretKeys :
        LET c0 == [Call("getAccountFromMap", "part_004") EXCEPT
                     !.secretKey = secretKey]
            call == getAccountFromMapCall(accountMappingContract(networkId), secretKey)
        IN
        IF viewAccount = Undefined
        THEN last' = [c0 EXCEPT !.error = "type_error"]
        ELSE \E accountId \in {"null"} \cup Accounts :
            last' = [c0 EXCEPT !.views = 1, !.viewCalls = <<call>>,
                               !.returned = accountId]

----------------------------------------------------------------------------
(* keypom-utils, checks and views: the helpers the keys module calls *)

\* A JavaScript property read: a property the object lacks reads undefined.
prop(obj, name) == IF name \in DOMAIN obj THEN obj[name] ELSE Undefined

isValidAccountObj(o) == o = Undefined \/ o \in Accounts

\* The accountId of a signer: a wallet-selector wallet has no such property.
accountIdOf(signer) == IF signer \in Accounts THEN signer ELSE Undefined

toCamel(ftData) ==
    [contractId |-> ftData.contract_id, balancePerUse |-> ftData.balance_per_use]

STORAGE == 2

KEY_STORAGE == 1

ALLOWANCE_PER_GAS == 1

FT_STORAGE == 1

REQUIRED_GAS == 1

\* storage + per-key storage and access-key allowance + the deposits of every
\* use of every key + the storage the FT contract asks for every use.
estimateRequiredDeposit(depositPerUse, numKeys, usesPerKey, attachedGas, storage, ftData) ==
    storage
    + numKeys * (KEY_STORAGE + ALLOWANCE_PER_GAS * attachedGas)
    + depositPerUse * usesPerKey * numKeys
    + (IF prop(ftData, "contractId") # Undefined
       THEN FT_STORAGE * usesPerKey * numKeys ELSE 0)

ftTransferCall(ftContractId, keypom, amount, msg) ==
    Tx(ftContractId, <<[Action("ft_transfer_call") EXCEPT
                          !.receiver_id = keypom, !.amount = amount, !.msg = msg]>>)

nftTransferCall(nftContractId, keypom, tokenIds, msg) ==
    [i \in 1..tokenIds |->
        Tx(nftContractId, <<[Action("nft_transfer_call") EXCEPT
                               !.receiver_id = keypom, !.msg = msg]>>)]

\* getEnv() of keypom.ts has no fundingAccountDetails property: the name the
\* keys module destructures from it reads undefined.
fundingAccountDetails == Undefined

\* A key pair is known by what it was derived from.  With root entropy the
\* seed of key i is a function of the root entropy and metaEntropy[i] only;
\* without it every key comes from the random source (seed: the draw).
generateKeys(numKeys, rootEntropy, metaEntropy, seed) ==
    [i \in 1..numKeys |->
        IF rootEntropy # Undefined
        THEN [source |-> "deterministic", root |-> rootEntropy,
              meta |-> metaEntropy[i]]
        ELSE [source |-> "random", root |-> "", meta |-> <<"", seed * 10 + i>>]]

\* For every key the passwords of the protected uses: the password of a use
\* is a hash of the base password, the public key and the use.
generatePerUsePasswords(publicKeys, basePassword, uses) ==
    [i \in 1..Len(publicKeys) |->
        [j \in 1..Len(uses) |->
            [pw |-> <<basePassword, publicKeys[i], uses[j]>>, key_use |-> uses[j]]]]

\* The public keys a caller passes instead of having them generated.
PassedPublicKeys(n) ==
    [i \in 1..n |-> [source |-> "passed", root |-> "", meta |-> <<"", i>>]]

\* getDropInformation and getUserBalance are view calls through viewAccount.
viewCallPossible == viewAccount # Undefined

LatestContracts == {MainnetContract, TestnetContract}

----------------------------------------------------------------------------
(* The drops the contract may hold and the inputs a caller may pass *)

DropId == "1669840629120"

FtContract == "ft.keypom.testnet"
NftContract == "nft.examples.testnet"

NoFt == [contract_id |-> Undefined, balance_per_use |-> 0]
NoNft == [contract_id |-> Undefined]

Assets(balances) ==
    {<<NoFt, NoNft>>, <<NoFt, [contract_id |-> NftContract]>>}
    \cup {<<[contract_id |-> FtContract, balance_per_use |-> b], NoNft>> : b \in balances}

Drops(deposits, uses, registered, balances) ==
    {[drop_id |-> DropId, owner_id |-> "alice", registered_uses |-> r,
      deposit_per_use |-> d, uses_per_key |-> u, required_gas |-> REQUIRED_GAS,
      ft |-> a[1], nft |-> a[2], next_key_id |-> 0] :
        d \in deposits, u \in uses, r \in registered, a \in Assets(balances)}

MaxUserBalance == 12

\* publicKeys: -1 when the parameter is not passed, else the array's length.
FlowInputs ==
    [accounts |-> {Undefined, "alice", "bob", "invalid"},
     wallets |-> {Undefined, "wallet"},
     dropGiven |-> {"none", "dropId", "drop"},
     drops |-> Drops({1}, {1}, 0..MaxRegisteredUses, {1}),
     numKeys |-> {0, 1},
     publicKeys |-> {-1, 0, MaxKeys},
     rootEntropy |-> {Undefined},
     seeds |-> {1},
     basePassword |-> {Undefined},
     passwordProtectedUses |-> {NoUses},
     nftTokenIds |-> 0..MaxNftTokenIds,
     useBalance |-> BOOLEAN,
     userBals |-> {0, MaxUserBalance},
     returnTransactions |-> BOOLEAN,
     withdrawBalance |-> BOOLEAN,
     rejects |-> 0..(MaxNftTokenIds + 2),
     onLedger |-> FALSE]

AmountInputs ==
    [accounts |-> {"alice"},
     wallets |-> {Undefined},
     dropGiven |-> {"dropId"},
     drops |-> Drops(1..MaxDepositPerUse, 1..MaxUsesPerKey,
                     0..MaxRegisteredUses, 1..MaxBalancePerUse),
     numKeys |-> 1..MaxKeys,
     publicKeys |-> {-1},
     rootEntropy |-> {Undefined},
     seeds |-> {1},
     basePassword |-> {Undefined},
     passwordProtectedUses |-> {NoUses},
     nftTokenIds |-> {0},
     useBalance |-> BOOLEAN,
     userBals |-> 0..MaxUserBalance,
     returnTransactions |-> {FALSE},
     withdrawBalance |-> {FALSE},
     rejects |-> {0},
     onLedger |-> FALSE]

SessionInputs ==
    [accounts |-> {Undefined, "alice"},
     wallets |-> {Undefined},
     dropGiven |-> {"dropId"},
     drops |-> Drops({1}, {1}, {0}, {1}),
     numKeys |-> {1},
     publicKeys |-> {-1},
     rootEntropy |-> {Undefined},
     seeds |-> {1},
     basePassword |-> {Undefined},
     passwordProtectedUses |-> {NoUses},
     nftTokenIds |-> {0},
     useBalance |-> {FALSE},
     userBals |-> {0},
     returnTransactions |-> {FALSE},
     withdrawBalance |-> {FALSE},
     rejects |-> {0},
     onLedger |-> FALSE]

RootEntropies == {"my-global-secret-password", "other-password"}

\* Key generation: drops at every next_key_id, with and without root entropy.
EntropyInputs ==
    [accounts |-> {"alice"},
     wallets |-> {Undefined},
     dropGiven |-> {"dropId"},
     drops |-> {[d EXCEPT !.next_key_id = k] :
                   d \in Drops({1}, {1}, {0}, {1}), k \in 0..MaxNextKeyId},
     numKeys |-> 1..MaxKeys,
     publicKeys |-> {-1, MaxKeys},
     rootEntropy |-> {Undefined} \cup RootEntropies,
     seeds |-> {1, 2},
     basePassword |-> {Undefined},
     passwordProtectedUses |-> {NoUses},
     nftTokenIds |-> {0},
     useBalance |-> {FALSE},
     userBals |-> {0},
     returnTransactions |-> {FALSE},
     withdrawBalance |-> {FALSE},
     rejects |-> {0},
     onLedger |-> FALSE]

PASSWORD_KEY_LIMIT == 50

\* Password protection: key counts around the limit, with and without a
\* base password and a list of protected uses.
PasswordInputs ==
    [accounts |-> {"alice"},
     wallets |-> {Undefined},
     dropGiven |-> {"dropId"},
     drops |-> Drops({1}, 1..MaxUsesPerKey, {0}, {1}),
     numKeys |-> {1, PASSWORD_KEY_LIMIT, PASSWORD_KEY_LIMIT + 1},
     publicKeys |-> {-1, PASSWORD_KEY_LIMIT + 1},
     rootEntropy |-> {Undefined},
     seeds |-> {1},
     basePassword |-> {Undefined, "base-password"},
     passwordProtectedUses |->
         {NoUses, [given |-> TRUE, uses |-> <<>>]}
         \cup {[given |-> TRUE, uses |-> <<u>>] : u \in 1..MaxUsesPerKey},
     nftTokenIds |-> {0},
     useBalance |-> {FALSE},
     userBals |-> {0},
     returnTransactions |-> {FALSE},
     withdrawBalance |-> {FALSE},
     rejects |-> {0},
     onLedger |-> FALSE]

----------------------------------------------------------------------------
(* The drop on the Keypom contract.  The contract numbers the keys of a    *)
(* drop with next_key_id, which only goes up, and takes a public key that  *)
(* is on the contract already for a collision: the transaction fails.      *)
(* held: the next_key_id of the drop object the caller fetched and kept,   *)
(* -1 when it holds none.  usedMeta, submitted: what the successful        *)
(* addKeys calls so far used and sent; reusedMeta, resubmitted: what a     *)
(* later successful call used or sent again.                               *)

NoLedger ==
    [next_key_id |-> 0, held |-> -1, registered |-> {},
     usedMeta |-> {}, reusedMeta |-> {}, submitted |-> {}, resubmitted |-> {}]

SimpleDrop(k) ==
    [drop_id |-> DropId, owner_id |-> "alice", registered_uses |-> 0,
     deposit_per_use |-> 1, uses_per_key |-> 1, required_gas |-> REQUIRED_GAS,
     ft |-> NoFt, nft |-> NoNft, next_key_id |-> k]

Range(seq) == {seq[i] : i \in DOMAIN seq}

\* The public keys of the add_keys a call built.
addKeysSubmitted(call) ==
    IF call.batch # <<>> THEN Range(call.batch[1].actions[1].public_keys) ELSE {}

addKeysMetaUsed(call) ==
    {<<call.rootEntropyUsed, call.metaEntropy[i]>> : i \in DOMAIN call.metaEntropy}

\* The contract refuses add_keys exactly when one of its keys collides.
ledgerAnswers(l, call) ==
    (call.batch # <<>> /\ call.error \in {"", "tx_rejected"}) =>
        ((call.rejected = 1) <=> (addKeysSubmitted(call) \cap l.registered # {}))

ledgerAfterAddKeys(l, call) ==
    IF call.error = "" /\ call.sent # <<>>
    THEN [l EXCEPT !.next_key_id = @ + call.numKeys,
                   !.registered = @ \cup addKeysSubmitted(call),
                   !.usedMeta = @ \cup addKeysMetaUsed(call),
                   !.reusedMeta = @ \cup (l.usedMeta \cap addKeysMetaUsed(call)),
                   !.submitted = @ \cup addKeysSubmitted(call),
                   !.resubmitted = @ \cup (l.submitted \cap addKeysSubmitted(call))]
    ELSE l

\* deleteKeys is passed the public keys of the drop.
ledgerAfterDeleteKeys(l, call) ==
    IF call.error = "" /\ call.sent # <<>>
    THEN [l EXCEPT !.registered = {}]
    ELSE l

\* addKeys by dropId: the drop information is the contract's, as it is now.
FreshDropInputs ==
    [accounts |-> {"alice"},
     wallets |-> {Undefined},
     dropGiven |-> {"dropId"},
     drops |-> {SimpleDrop(ledger.next_key_id)},
     numKeys |-> {n \in 1..MaxKeys : ledger.next_key_id + n <= MaxNextKeyId},
     publicKeys |-> {-1},
     rootEntropy |-> RootEntropies,
     seeds |-> {1},
     basePassword |-> {Undefined},
     passwordProtectedUses |-> {NoUses},
     nftTokenIds |-> {0},
     useBalance |-> {FALSE},
     userBals |-> {0},
     returnTransactions |-> {FALSE},
     withdrawBalance |-> {FALSE},
     rejects |-> 0..1,
     onLedger |-> TRUE]

\* addKeys by drop: the drop object the caller holds.
HeldDropInputs ==
    [FreshDropInputs EXCEPT
        !.dropGiven = {"drop"},
        !.drops = IF ledger.held >= 0 THEN {SimpleDrop(ledger.held)} ELSE {}]

\* The caller fetches the drop information and keeps the object.
getDropInformation ==
    /\ Idle
    /\ viewCallPossible
    /\ UNCHANGED <<session, funderPassed, claimCalls>>
    /\ last' = [Call("getDropInformation", "views") EXCEPT
                  !.views = 1, !.dropKnown = TRUE,
                  !.drop = SimpleDrop(ledger.next_key_id), !.returned = "drop"]
    /\ ledger' = [ledger EXCEPT !.held = ledger.next_key_id]

----------------------------------------------------------------------------
(* addKeys of the keys module with the ownership check (part_005) *)

\* Array.from({length: numKeys}, (_, i) => `${drop_id}_${next_key_id + i}`)
\* Mutant: the nonce of a key is its index alone.
nonceDropIdMeta_indexOnly(drop_id, next_key_id, numKeys) ==
    [i \in 1..numKeys |-> <<drop_id, i - 1>>]

nonceDropIdMeta(drop_id, next_key_id, numKeys) ==
    [i \in 1..numKeys |-> <<drop_id, next_key_id + (i - 1)>>]

\* if (!publicKeys) { rootEntropyUsed = rootEntropy || fundingAccountDetails?.rootEntropy; ... }
\* [rootEntropyUsed, metaEntropy, keys, publicKeys]; keys stays unset (<<>>)
\* when the caller passed publicKeys, whatever their number.
addKeysGenerate(drop, numKeys, publicKeys, rootEntropy, seed) ==
    IF publicKeys # -1
    THEN [rootEntropyUsed |-> Undefined, metaEntropy |-> <<>>, keys |-> <<>>,
          publicKeys |-> PassedPublicKeys(publicKeys)]
    ELSE LET rootEntropyUsed ==
                 IF rootEntropy # Undefined THEN rootEntropy
                 ELSE IF fundingAccountDetails # Undefined
                 THEN prop(fundingAccountDetails, "rootEntropy")
                 ELSE Undefined
             meta == IF rootEntropyUsed # Undefined
                     THEN nonceDropIdMeta(drop.drop_id, drop.next_key_id, numKeys)
                     ELSE <<>>
             keys == generateKeys(numKeys, rootEntropyUsed, meta, seed)
         IN [rootEntropyUsed |-> rootEntropyUsed, metaEntropy |-> meta,
             keys |-> keys, publicKeys |-> keys]

\* Mutant: receiverId == "v1-3.keypom.near" || "v1-3.keypom.testnet", which
\* is truthy whatever receiverId is.
addKeysContractAssert_truthy(rcv) == TRUE

\* assert(receiverId == "v1-3.keypom.near" || receiverId == "v1-3.keypom.testnet", ...)
addKeysContractAssert(rcv) == rcv \in LatestContracts

\* Mutant: the limit is off by one.
addKeysPasswordAssert_below(numKeys) == numKeys < PASSWORD_KEY_LIMIT

\* assert(numKeys <= 50, "Cannot add 50 keys at once with passwords")
addKeysPasswordAssert(numKeys) == numKeys <= PASSWORD_KEY_LIMIT

\* uses: passwordProtectedUses || Array.from({length: uses_per_key}, (_, i) => i+1)
\* An array is truthy, the empty one too.
addKeysPasswordUses(passwordProtectedUses, uses_per_key) ==
    IF passwordProtectedUses.given THEN passwordProtectedUses.uses
    ELSE [i \in 1..uses_per_key |-> i]

\* passwords stays unset (<<>>) without a base password.
addKeysPasswords(drop, publicKeys, basePassword, passwordProtectedUses) ==
    IF basePassword = Undefined THEN <<>>
    ELSE generatePerUsePasswords(publicKeys, basePassword,
             addKeysPasswordUses(passwordProtectedUses, drop.uses_per_key))

\* assert(owner_id === account!.accountId, ...)
addKeysOwnerAssert(owner_id, accountId) == owner_id = accountId

\* assert(userBal >= requiredDeposit, ...): both operands are strings
addKeysBalanceAssert(userBal, requiredDeposit) ==
    ~StringLess(toString(userBal), toString(requiredDeposit))

\* Mutant: the deposits of the uses are subtracted instead of added.
addKeysRequiredDeposit_signSlip(drop, numKeys) ==
    estimateRequiredDeposit(0, numKeys, drop.uses_per_key,
                            drop.required_gas, STORAGE, toCamel(drop.ft))
    - drop.deposit_per_use * drop.uses_per_key * numKeys

addKeysRequiredDeposit(drop, numKeys) ==
    estimateRequiredDeposit(drop.deposit_per_use, numKeys, drop.uses_per_key,
                            drop.required_gas, STORAGE, toCamel(drop.ft))

addKeysFtAmount(drop, numKeys) ==
    drop.ft.balance_per_use * numKeys * drop.uses_per_key

\* Mutant: the transfers are pushed before the add_keys transaction.
addKeysTransactions_transfersFirst(rcv, drop, publicKeys, passwords, deposit, nftTokenIds) ==
    (IF drop.ft.contract_id # Undefined
     THEN <<ftTransferCall(drop.ft.contract_id, rcv,
                           addKeysFtAmount(drop, Len(publicKeys)), drop.drop_id)>>
     ELSE <<>>)
    \o <<Tx(rcv, <<[Action("add_keys") EXCEPT
                      !.drop_id = drop.drop_id, !.numKeys = Len(publicKeys),
                      !.public_keys = publicKeys,
                      !.passwords_per_use = passwords,
                      !.deposit = deposit]>>)>>
    \o (IF nftTokenIds > 0
        THEN nftTransferCall(prop(drop.nft, "contractId"), rcv, nftTokenIds, drop.drop_id)
        ELSE <<>>)

addKeysTransactions(rcv, drop, publicKeys, passwords, deposit, nftTokenIds) ==
    <<Tx(rcv, <<[Action("add_keys") EXCEPT
                   !.drop_id = drop.drop_id, !.numKeys = Len(publicKeys),
                   !.public_keys = publicKeys,
                   !.passwords_per_use = passwords,
                   !.deposit = deposit]>>)>>
    \o (IF drop.ft.contract_id # Undefined
        THEN <<ftTransferCall(drop.ft.contract_id, rcv,
                              addKeysFtAmount(drop, Len(publicKeys)), drop.drop_id)>>
        ELSE <<>>)
    \o (IF nftTokenIds > 0
        THEN nftTransferCall(prop(drop.nft, "contractId"), rcv, nftTokenIds, drop.drop_id)
        ELSE <<>>)

addKeys(in) ==
    /\ Idle
    /\ UNCHANGED <<session, funderPassed, claimCalls>>
    /\ \E account \in in.accounts, wallet \in in.wallets,
          dropGiven \in in.dropGiven, numKeys \in in.numKeys,
          publicKeys \in in.publicKeys,
          returnTransactions \in in.returnTransactions,
          basePassword \in in.basePassword,
          passwordProtectedUses \in in.passwordProtectedUses :
        LET c0 == [Call("addKeys", "part_005") EXCEPT
                     !.account = account, !.wallet = wallet,
                     !.returnTransactions = returnTransactions,
                     !.basePassword = basePassword,
                     !.passwordProtectedUses = passwordProtectedUses]
        IN
        IF near = Undefined
        THEN last' = [c0 EXCEPT !.error = "not_initialized"]
        ELSE IF ~isValidAccountObj(account)
        THEN last' = [c0 EXCEPT !.error = "invalid_account"]
        ELSE IF dropGiven = "none"
        THEN last' = [c0 EXCEPT !.error = "missing_drop"]
        ELSE IF numKeys = 0 /\ publicKeys <= 0
        THEN last' = [c0 EXCEPT !.error = "missing_keys"]
        ELSE IF ~addKeysContractAssert(receiverId)
        THEN last' = [c0 EXCEPT !.error = "wrong_contract"]
        ELSE \E drop \in in.drops :
            LET acct == getAccount(account, wallet)
                c1 == [c0 EXCEPT !.dropKnown = TRUE, !.drop = drop,
                         !.views = IF dropGiven = "dropId" THEN 1 ELSE 0,
                         !.signerResolved = (acct # Undefined),
                         !.signer = acct]
            IN
            IF acct = Undefined
            THEN last' = [c1 EXCEPT !.error = "type_error"]
            ELSE IF ~addKeysOwnerAssert(drop.owner_id, accountIdOf(acct))
            THEN last' = [c1 EXCEPT !.error = "not_owner"]
            ELSE \E nftTokenIds \in in.nftTokenIds, useBalance \in in.useBalance,
                    rootEntropy \in IF publicKeys = -1 THEN in.rootEntropy ELSE {Undefined},
                    seed \in IF publicKeys = -1 THEN in.seeds ELSE {1} :
                \E userBal \in IF useBalance THEN in.userBals ELSE {0} :
                LET g == addKeysGenerate(drop, numKeys, publicKeys, rootEntropy, seed)
                    n == Len(g.publicKeys)
                    passwords == addKeysPasswords(drop, g.publicKeys, basePassword,
                                                  passwordProtectedUses)
                    requiredDeposit == addKeysRequiredDeposit(drop, n)
                    ck == [c1 EXCEPT
                             !.numKeys = n,
                             !.keysGenerated = Len(g.keys),
                             !.rootEntropyUsed = g.rootEntropyUsed,
                             !.metaEntropy = g.metaEntropy,
                             !.keys = g.keys]
                    c2 == [ck EXCEPT
                             !.estimated = TRUE,
                             !.requiredDeposit = requiredDeposit,
                             !.useBalance = useBalance, !.userBal = userBal,
                             !.views = @ + (IF useBalance THEN 1 ELSE 0),
                             !.nftTokenIds = nftTokenIds]
                    transactions ==
                        addKeysTransactions(receiverId, drop, g.publicKeys, passwords,
                            IF useBalance THEN -1 ELSE requiredDeposit, nftTokenIds)
                IN
                IF basePassword # Undefined /\ ~addKeysPasswordAssert(n)
                THEN last' = [ck EXCEPT !.error = "too_many_password_keys"]
                ELSE IF useBalance /\ ~addKeysBalanceAssert(userBal, requiredDeposit)
                THEN last' = [c2 EXCEPT !.error = "insufficient_balance"]
                ELSE IF nftTokenIds > 2
                THEN last' = [c2 EXCEPT !.error = "too_many_nfts"]
                ELSE \E rejectAt \in {r \in in.rejects : r <= Len(transactions)} :
                    LET r == execute(transactions, acct, wallet, rejectAt) IN
                    \E signedBy \in r.signers :
                    last' = [c2 EXCEPT
                               !.error = r.error, !.batch = transactions,
                               !.sent = r.sent, !.rejected = r.rejected,
                               !.signedBy = signedBy,
                               !.returned = IF r.error = "" THEN "responses" ELSE "none"]
    /\ in.onLedger => ledgerAnswers(ledger, last')
    /\ ledger' = IF in.onLedger THEN ledgerAfterAddKeys(ledger, last') ELSE ledger

----------------------------------------------------------------------------
(* addKeys of src/lib/keys.ts *)

\* if (userBal < requiredDeposit) throw: both operands are strings
addKeysBalanceBelow_keys_ts(userBal, requiredDeposit) ==
    StringLess(toString(userBal), toString(requiredDeposit))

\* ftData is handed over as the contract returned it, in snake case
addKeysRequiredDeposit_keys_ts(drop, numKeys) ==
    estimateRequiredDeposit(drop.deposit_per_use, numKeys, drop.uses_per_key,
                            drop.required_gas, STORAGE, drop.ft)

addKeysFtAmount_keys_ts(drop, numKeys) ==
    drop.ft.balance_per_use * (numKeys - drop.registered_uses)

addKeysTransactions_keys_ts(rcv, keypom, drop, publicKeys, deposit) ==
    <<Tx(rcv, <<[Action("add_keys") EXCEPT
                   !.drop_id = drop.drop_id, !.numKeys = Len(publicKeys),
                   !.public_keys = publicKeys,
                   !.deposit = deposit]>>)>>
    \o (IF drop.ft.contract_id # Undefined
        THEN <<ftTransferCall(drop.ft.contract_id, keypom,
                              addKeysFtAmount_keys_ts(drop, Len(publicKeys)), drop.drop_id)>>
        ELSE <<>>)

\* let responses = await execute(...); the NFT transfers follow only when
\* execute returned: a rejection propagates out of addKeys.
\* Mutant: the rejection of execute is caught and the NFT transfers go on.
addKeysNftTransfers_keys_ts_caught(executeError, nftTxs) == nftTxs

addKeysNftTransfers_keys_ts(executeError, nftTxs) ==
    IF executeError # "" THEN <<>> ELSE nftTxs

addKeys_keys_ts(in) ==
    /\ Idle
    /\ UNCHANGED <<session, funderPassed, claimCalls>>
    /\ \E account \in in.accounts, wallet \in in.wallets,
          dropGiven \in in.dropGiven, numKeys \in in.numKeys,
          publicKeys \in in.publicKeys,
          returnTransactions \in in.returnTransactions,
          basePassword \in in.basePassword,
          passwordProtectedUses \in in.passwordProtectedUses :
        LET c0 == [Call("addKeys", "keys.ts") EXCEPT
                     !.account = account, !.wallet = wallet,
                     !.returnTransactions = returnTransactions,
                     !.basePassword = basePassword,
                     !.passwordProtectedUses = passwordProtectedUses]
        IN
        IF near = Undefined
        THEN last' = [c0 EXCEPT !.error = "not_initialized"]
        ELSE IF dropGiven = "none"
        THEN last' = [c0 EXCEPT !.error = "missing_drop"]
        ELSE IF numKeys = 0 /\ publicKeys <= 0
        THEN last' = [c0 EXCEPT !.error = "missing_keys"]
        ELSE \E drop \in in.drops, nftTokenIds \in in.nftTokenIds,
                useBalance \in in.useBalance,
                rootEntropy \in IF publicKeys = -1 THEN in.rootEntropy ELSE {Undefined},
                seed \in IF publicKeys = -1 THEN in.seeds ELSE {1} :
            \E userBal \in IF useBalance THEN in.userBals ELSE {0} :
            LET acct == getAccount(account, wallet)
                g == addKeysGenerate(drop, numKeys, publicKeys, rootEntropy, seed)
                n == Len(g.publicKeys)
                requiredDeposit == addKeysRequiredDeposit_keys_ts(drop, n)
                c1 == [c0 EXCEPT !.dropKnown = TRUE, !.drop = drop,
                         !.views = IF dropGiven = "dropId" THEN 1 ELSE 0,
                         !.signerResolved = (acct # Undefined),
                         !.signer = acct,
                         !.numKeys = n,
                         !.keysGenerated = Len(g.keys),
                         !.rootEntropyUsed = g.rootEntropyUsed,
                         !.metaEntropy = g.metaEntropy,
                         !.keys = g.keys,
                         !.estimated = TRUE,
                         !.requiredDeposit = requiredDeposit,
                         !.useBalance = useBalance, !.userBal = userBal,
                         !.nftTokenIds = nftTokenIds]
                transactions ==
                    addKeysTransactions_keys_ts(receiverId, contractId, drop, g.publicKeys,
                        IF useBalance THEN -1 ELSE requiredDeposit)
                nftTxs == IF nftTokenIds > 0
                          THEN nftTransferCall(drop.nft.contract_id, contractId,
                                               nftTokenIds, drop.drop_id)
                          ELSE <<>>
            IN
            IF useBalance /\ acct = Undefined
            THEN last' = [c1 EXCEPT !.error = "type_error"]
            ELSE IF useBalance /\ addKeysBalanceBelow_keys_ts(userBal, requiredDeposit)
            THEN last' = [c1 EXCEPT !.views = @ + 1, !.error = "insufficient_balance"]
            ELSE \E rejectAt \in {r \in in.rejects : r <= Len(transactions) + Len(nftTxs)} :
                LET r == execute(transactions, acct, wallet, rejectAt)
                    later == addKeysNftTransfers_keys_ts(r.error, nftTxs)
                    rn == execute(later, acct, wallet, rejectAt - Len(transactions))
                IN
                \E signedBy \in r.signers :
                last' = [c1 EXCEPT
                           !.views = @ + (IF useBalance THEN 1 ELSE 0),
                           !.error = IF r.error # "" THEN r.error ELSE rn.error,
                           !.batch = transactions,
                           !.sent = r.sent \o rn.sent,
                           !.signedBy = signedBy,
                           !.rejected = IF r.error # "" THEN r.rejected
                                        ELSE IF rn.rejected > 0
                                        THEN Len(transactions) + rn.rejected ELSE 0,
                           !.returned = IF r.error = "" /\ rn.error = ""
                                        THEN "responses" ELSE "none"]
    /\ in.onLedger => ledgerAnswers(ledger, last')
    /\ ledger' = IF in.onLedger THEN ledgerAfterAddKeys(ledger, last') ELSE ledger

----------------------------------------------------------------------------
(* deleteKeys of the keys module (part_005) *)

\* assert(receiverId == "v1-3.keypom.near" || receiverId == "v1-3.keypom.testnet", ...)
deleteKeysContractAssert(rcv) == rcv \in LatestContracts

\* Mutant: the ownership assertion is missing.
deleteKeysOwnerAssert_missing(owner_id, accountId) == TRUE

\* assert(owner_id == account!.accountId, ...)
deleteKeysOwnerAssert(owner_id, accountId) == owner_id = accountId

\* Mutant: withdraw_from_balance is pushed before delete_keys.
deleteKeysActions_withdrawFirst(drop, withdrawBalance) ==
    (IF (drop.ft.contract_id # Undefined \/ drop.nft.contract_id # Undefined)
        /\ drop.registered_uses > 0
     THEN <<[Action("refund_assets") EXCEPT !.drop_id = drop.drop_id]>>
     ELSE <<>>)
    \o (IF withdrawBalance THEN <<Action("withdraw_from_balance")>> ELSE <<>>)
    \o <<[Action("delete_keys") EXCEPT !.drop_id = drop.drop_id]>>

\* Mutant: the refund does not look at registered_uses.
deleteKeysActions_refundUnregistered(drop, withdrawBalance) ==
    (IF drop.ft.contract_id # Undefined \/ drop.nft.contract_id # Undefined
     THEN <<[Action("refund_assets") EXCEPT !.drop_id = drop.drop_id]>>
     ELSE <<>>)
    \o <<[Action("delete_keys") EXCEPT !.drop_id = drop.drop_id]>>
    \o (IF withdrawBalance THEN <<Action("withdraw_from_balance")>> ELSE <<>>)

deleteKeysActions(drop, withdrawBalance) ==
    (IF (drop.ft.contract_id # Undefined \/ drop.nft.contract_id # Undefined)
        /\ drop.registered_uses > 0
     THEN <<[Action("refund_assets") EXCEPT !.drop_id = drop.drop_id]>>
     ELSE <<>>)
    \o <<[Action("delete_keys") EXCEPT !.drop_id = drop.drop_id]>>
    \o (IF withdrawBalance THEN <<Action("withdraw_from_balance")>> ELSE <<>>)

deleteKeys(in) ==
    /\ Idle
    /\ UNCHANGED <<session, funderPassed, claimCalls>>
    /\ \E account \in in.accounts, wallet \in in.wallets,
          withdrawBalance \in in.withdrawBalance :
        LET c0 == [Call("deleteKeys", "part_005") EXCEPT
                     !.account = account, !.wallet = wallet,
                     !.withdrawBalance = withdrawBalance]
        IN
        IF ~deleteKeysContractAssert(receiverId)
        THEN last' = [c0 EXCEPT !.error = "wrong_contract"]
        ELSE IF ~viewCallPossible
        THEN last' = [c0 EXCEPT !.error = "type_error"]
        ELSE \E drop \in in.drops :
            LET acct == getAccount(account, wallet)
                c1 == [c0 EXCEPT !.dropKnown = TRUE, !.drop = drop, !.views = 1]
                c2 == [c1 EXCEPT !.signerResolved = (acct # Undefined),
                                 !.signer = acct]
            IN
            IF ~isValidAccountObj(account)
            THEN last' = [c1 EXCEPT !.error = "invalid_account"]
            ELSE IF acct = Undefined
            THEN last' = [c2 EXCEPT !.error = "type_error"]
            ELSE IF ~deleteKeysOwnerAssert(drop.owner_id, accountIdOf(acct))
            THEN last' = [c2 EXCEPT !.error = "not_owner"]
            ELSE LET transactions ==
                        <<Tx(receiverId, deleteKeysActions(drop, withdrawBalance))>>
                 IN \E rejectAt \in {r \in in.rejects : r <= 1} :
                    LET r == execute(transactions, acct, wallet, rejectAt) IN
                    \E signedBy \in r.signers :
                    last' = [c2 EXCEPT
                               !.error = r.error, !.batch = transactions,
                               !.sent = r.sent, !.rejected = r.rejected,
                               !.signedBy = signedBy,
                               !.returned = IF r.error = "" THEN "responses" ELSE "none"]
    /\ ledger' = IF in.onLedger THEN ledgerAfterDeleteKeys(ledger, last') ELSE ledger

----------------------------------------------------------------------------
(* The caller: one call at a time, each awaited before the next *)

callerContinues ==
    /\ ~Idle
    /\ last' = NoCall
    /\ UNCHANGED <<session, funderPassed, claimCalls, ledger>>

Init ==
    /\ near = Undefined
    /\ networkId = Undefined
    /\ keyStore = [defined |-> FALSE, keys |-> {}]
    /\ viewAccount = Undefined
    /\ contractId = TestnetContract
    /\ receiverId = TestnetContract
    /\ contractAccount = Undefined
    /\ fundingAccount = Undefined
    /\ fundingKey = Undefined
    /\ last = NoCall
    /\ funderPassed = Undefined
    /\ claimCalls = [p \in ClaimCallers |-> NoClaimCall]
    /\ ledger = NoLedger

Next ==
    \/ initKeypom({Undefined} \cup Networks, Networks, {Undefined} \cup Accounts,
                  {Undefined, TestnetContract, MainnetContract, OtherContract})
    \/ updateFunder
    \/ updateKeypomContractId
    \/ claim
    \/ trialCallMethod
    \/ getAccountFromMap
    \/ addKeys(SessionInputs)
    \/ addKeys_keys_ts(SessionInputs)
    \/ deleteKeys(SessionInputs)
    \/ callerContinues

Spec == Init /\ [][Next]_vars

NextKeys ==
    \/ initKeypom({Undefined}, {"testnet"}, {Undefined} \cup Accounts, {Undefined})
    \/ \E in \in {FlowInputs, AmountInputs, EntropyInputs, PasswordInputs} : addKeys(in)
    \/ \E in \in {FlowInputs, AmountInputs, EntropyInputs, PasswordInputs} : addKeys_keys_ts(in)
    \/ deleteKeys(FlowInputs)
    \/ callerContinues

SpecKeys == Init /\ [][NextKeys]_vars

\* The session is set up while no claim is in flight; claim calls then
\* start, suspend and resume in any order.
NextClaims ==
    \/ /\ NoClaimInFlight
       /\ initKeypom({Undefined}, Networks, {Undefined, "alice"},
                     {Undefined, OtherContract})
    \/ callerContinues
    \/ \E p \in ClaimCallers : claimCall(p)
    \/ \E p \in ClaimCallers : claimResume(p)
    \/ \E p \in ClaimCallers : claimSign(p)
    \/ \E p \in ClaimCallers : claimReturn(p)

SpecClaims == Init /\ [][NextClaims]_vars

\* One drop of alice's on the contract: keys are added to it by dropId and
\* by a drop object fetched earlier, and deleted.
NextEntropy ==
    \/ initKeypom({Undefined}, {"testnet"}, {"alice"}, {Undefined})
    \/ getDropInformation
    \/ addKeys(FreshDropInputs)
    \/ addKeys(HeldDropInputs)
    \/ addKeys_keys_ts(FreshDropInputs)
    \/ addKeys_keys_ts(HeldDropInputs)
    \/ deleteKeys(FreshDropInputs)
    \/ callerContinues

SpecEntropy == Init /\ [][NextEntropy]_vars

----------------------------------------------------------------------------
(* Claims *)

IsAddKeys == last.op = "addKeys"
IsDeleteKeys == last.op = "deleteKeys"

MethodOf(tx) == tx.actions[1].methodName

\* C1: addKeys with useBalance=true and a Keypom balance numerically below
\* the estimated deposit fails with the insufficient-balance error and
\* dispatches no transaction.
C1_InsufficientBalanceFails ==
    (IsAddKeys /\ last.useBalance /\ last.estimated /\ last.signerResolved
     /\ last.userBal < last.requiredDeposit)
    => (last.error = "insufficient_balance" /\ last.sent = <<>>)

\* C2: deleteKeys by a signer whose accountId is not the drop's owner_id
\* fails with the ownership error and dispatches no transaction.
C2_DeleteKeysNonOwnerFails ==
    (IsDeleteKeys /\ last.signerResolved
     /\ accountIdOf(last.signer) # last.drop.owner_id)
    => (last.error = "not_owner" /\ last.batch = <<>> /\ last.sent = <<>>)

C2_Witness ==
    /\ IsDeleteKeys /\ last.signer = "bob" /\ last.drop.owner_id = "alice"
    /\ last.error = "not_owner" /\ last.views = 1

\* C3: addKeys by a signer whose accountId is not the drop's owner_id fails
\* with the ownership error before any key is generated, any deposit is
\* estimated or any transaction is dispatched.
C3_AddKeysNonOwnerFails ==
    (IsAddKeys /\ last.dropKnown /\ last.signerResolved
     /\ accountIdOf(last.signer) # last.drop.owner_id)
    => (/\ last.error = "not_owner"
        /\ last.keysGenerated = 0
        /\ ~last.estimated
        /\ last.sent = <<>>)

\* C4: addKeys, deleteKeys, claim, updateFunder and updateKeypomContractId,
\* called before the first initKeypom, fail with the SDK-not-initialized
\* error before any view call, key-store write or transaction and leave the
\* process-wide state as it was.
C4_UninitializedFails ==
    (last.op \in {"addKeys", "deleteKeys", "claim", "updateFunder",
                  "updateKeypomContractId"}
     /\ ~last.initialized)
    => (/\ last.error = "not_initialized"
        /\ last.views = 0
        /\ last.keyStoreWrites = 0
        /\ last.sent = <<>>
        /\ ~last.sessionChanged)

\* C5: in what addKeys sends, add_keys to the Keypom contract is the first
\* transaction, the ft_transfer_call (there iff the drop has an FT contract
\* id) comes after it, the nft_transfer_calls (there iff nftTokenIds is not
\* empty) after that, and every transfer carries the drop id as its msg.
C5_AddKeysBatchOrder ==
    (IsAddKeys /\ last.sent # <<>>) =>
        LET s == last.sent
            fts == {i \in DOMAIN s : MethodOf(s[i]) = "ft_transfer_call"}
            nfts == {i \in DOMAIN s : MethodOf(s[i]) = "nft_transfer_call"}
        IN
        /\ MethodOf(s[1]) = "add_keys"
        /\ s[1].receiverId = receiverId
        /\ \A i \in DOMAIN s : Len(s[i].actions) = 1
        /\ DOMAIN s = {1} \cup fts \cup nfts
        /\ \A i \in fts, j \in nfts : i < j
        /\ \A i \in fts \cup nfts : s[i].actions[1].msg = last.drop.drop_id
        /\ last.error = "" =>
             /\ (fts # {}) <=> (last.drop.ft.contract_id # Undefined)
             /\ (nfts # {}) <=> (last.nftTokenIds > 0)
             /\ Cardinality(fts) <= 1
             /\ Cardinality(nfts) = last.nftTokenIds

C5_Witness ==
    /\ IsAddKeys /\ last.error = "" /\ Len(last.sent) = 4
    /\ MethodOf(last.sent[2]) = "ft_transfer_call"
    /\ MethodOf(last.sent[3]) = "nft_transfer_call"

\* C6: the action list of deleteKeys holds withdraw_from_balance iff
\* withdrawBalance is true, and then as its last action, after delete_keys
\* and after any refund_assets.
C6_WithdrawLast ==
    (IsDeleteKeys /\ last.batch # <<>>) =>
        LET a == last.batch[1].actions
            w == {i \in DOMAIN a : a[i].methodName = "withdraw_from_balance"}
        IN
        /\ (w # {}) <=> last.withdrawBalance
        /\ last.withdrawBalance =>
             /\ w = {Len(a)}
             /\ \E i \in 1..(Len(a) - 1) : a[i].methodName = "delete_keys"

C6_Witness ==
    /\ IsDeleteKeys /\ last.withdrawBalance /\ last.error = ""
    /\ Len(last.sent) = 1 /\ Len(last.sent[1].actions) = 3
    /\ last.sent[1].actions[1].methodName = "refund_assets"

\* C7: when the ledger rejects the transaction carrying add_keys, addKeys
\* sends nothing after it (no ft_transfer_call, no nft_transfer_call), sends
\* it once only, and the rejection reaches the caller.
C7_AddKeysFailFast ==
    (IsAddKeys /\ last.rejected = 1)
    => (/\ last.sent = <<last.batch[1]>>
        /\ MethodOf(last.batch[1]) = "add_keys"
        /\ last.error = "tx_rejected"
        /\ last.returned = "none")

C7_Witness ==
    /\ IsAddKeys /\ last.rejected = 1 /\ last.impl = "keys.ts"
    /\ last.drop.ft.contract_id # Undefined /\ last.nftTokenIds = 2

\* C8: addKeys called with returnTransactions=true dispatches no transaction
\* and returns the unsent batch.
C8_ReturnTransactionsSendsNothing ==
    (IsAddKeys /\ last.returnTransactions)
    => (/\ last.sent = <<>>
        /\ last.error = "" => last.returned = "transactions")

\* C9: the amount of the ft_transfer_call addKeys builds is
\* balance_per_use * uses_per_key * (keys added), whatever registered_uses
\* is, and is positive when at least one key is added.
C9_FtAmount ==
    IsAddKeys =>
        \A i \in DOMAIN last.batch :
            MethodOf(last.batch[i]) = "ft_transfer_call" =>
                LET amount == last.batch[i].actions[1].amount IN
                /\ amount = last.drop.ft.balance_per_use
                            * last.drop.uses_per_key * last.numKeys
                /\ last.numKeys >= 1 => amount > 0

DepositOf(impl, drop, numKeys) ==
    IF impl = "part_005" THEN addKeysRequiredDeposit(drop, numKeys)
    ELSE addKeysRequiredDeposit_keys_ts(drop, numKeys)

ManualKeys(root, dropId, first, numKeys) ==
    generateKeys(numKeys, root, [i \in 1..numKeys |-> <<dropId, first + i - 1>>], 0)

C12_TrialSentinel ==
    (last.op = "trialCallMethod"
     /\ ~\E e \in last.trial.policy :
            e.contractId = last.trial.contractId
            /\ e.methodName = last.trial.methodName)
    => (/\ last.outcome = FAILED_EXECUTION_OUTCOME
        /\ last.outcome.status = "Failure"
        /\ last.outcome.error_type = "keypom-trial-error"
        /\ last.returned = "outcome"
        /\ last.error = ""
        /\ last.batch = <<>> /\ last.sent = <<>>)

C12_Witness ==
    /\ last.op = "trialCallMethod"
    /\ last.trial.policy # {}
    /\ last.trial.contractId = MappingContract /\ last.trial.methodName = "set"
    /\ \A e \in last.trial.policy : e.contractId # MappingContract
    /\ last.outcome = FAILED_EXECUTION_OUTCOME /\ last.sent = <<>>

IsKeyOp == last.op \in {"addKeys", "deleteKeys"}

\* The call was given neither account nor wallet.
DefaultSigner == last.account = Undefined /\ last.wallet = Undefined

\* C13: when the most recent initKeypom passed no funder and no updateFunder
\* followed it, fundingAccount and fundingKey are unset and an operation
\* given neither account nor wallet dispatches nothing (there is no funder
\* of an earlier initialization to sign it).
C13_ReadOnlyWithoutFunder ==
    (near # Undefined /\ funderPassed = Undefined) =>
        /\ fundingAccount = Undefined
        /\ fundingKey = Undefined
        /\ (IsKeyOp /\ DefaultSigner) => last.sent = <<>>

\* The first initKeypom of a process without funder does give a read-only
\* session.
C13_Witness ==
    /\ near # Undefined /\ funderPassed = Undefined
    /\ fundingAccount = Undefined
    /\ IsAddKeys /\ DefaultSigner /\ last.error # "" /\ last.sent = <<>>

\* The contract the SDK documents as the most up-to-date one of a network.
DefaultContract(network) ==
    IF network = "mainnet" THEN MainnetContract ELSE TestnetContract

\* C14: after an initKeypom call that passes no keypomContractId, contractId
\* and receiverId are the default contract of the network that call selected,
\* whatever initKeypom calls came before it.
C14_DefaultContractPerNetwork ==
    (last.op = "initKeypom" /\ last.keypomContractId = Undefined) =>
        /\ contractId = DefaultContract(networkId)
        /\ receiverId = DefaultContract(networkId)

C14_Witness ==
    /\ last.op = "initKeypom" /\ last.keypomContractId = Undefined
    /\ networkId = "mainnet" /\ contractId = MainnetContract
    /\ receiverId = MainnetContract /\ contractAccount = MainnetContract

\* C15: on an initialized SDK updateKeypomContractId({keypomContractId})
\* completes without error, and afterwards contractId and receiverId both
\* equal keypomContractId.
C15_UpdateKeypomContractId ==
    (last.op = "updateKeypomContractId" /\ last.initialized) =>
        /\ last.error = ""
        /\ contractId = last.keypomContractId
        /\ receiverId = last.keypomContractId

\* C16: once updateFunder({funder}) or initKeypom with a funder has
\* completed, and until the next initKeypom, the process-wide funder is the
\* account of the funder given last, fundingKey is its key, the key store
\* holds that key under (networkId, accountId), and an operation given
\* neither account nor wallet is signed by that account.
C16_LatestFunderInEffect ==
    (near # Undefined /\ funderPassed # Undefined) =>
        /\ fundingAccount = funderPassed
        /\ fundingKey = SecretKeyOf(funderPassed)
        /\ <<networkId, funderPassed, SecretKeyOf(funderPassed)>> \in keyStore.keys
        /\ (IsKeyOp /\ DefaultSigner /\ last.sent # <<>>) =>
              last.signedBy = funderPassed

\* initKeypom with alice, updateFunder to bob, then an addKeys signed by bob.
C16_Witness ==
    /\ funderPassed = "bob" /\ fundingAccount = "bob"
    /\ <<networkId, "alice", SecretKeyOf("alice")>> \in keyStore.keys
    /\ <<networkId, "bob", SecretKeyOf("bob")>> \in keyStore.keys
    /\ IsAddKeys /\ DefaultSigner /\ last.sent # <<>> /\ last.signedBy = "bob"

\* C17: claim fails with an error and dispatches no transaction when
\* newAccountId is given without newPublicKey, and when neither accountId nor
\* newAccountId is given.
C17_ClaimParamErrors ==
    (last.op = "claim"
     /\ \/ last.claim.newAccountId # Undefined /\ last.claim.newPublicKey = Undefined
        \/ last.claim.newAccountId = Undefined /\ last.claim.accountId = Undefined)
    => (last.error # "" /\ last.batch = <<>> /\ last.sent = <<>>
        /\ last.returned = "none")

C17_Witness ==
    /\ last.op = "claim" /\ last.initialized
    /\ last.claim.newAccountId = "carol" /\ last.claim.newPublicKey = Undefined
    /\ last.claim.accountId = "alice"
    /\ last.error = "missing_new_public_key" /\ last.sent = <<>>

\* C18: a claim call that passes its parameter checks dispatches exactly one
\* transaction of exactly one action to the Keypom contract, signed as the
\* contract account, whose key in the key store is the linkdrop key:
\* create_account_and_claim(new_account_id, new_public_key) whenever
\* newAccountId is given, else claim(account_id); no deposit is attached.
C18_ClaimSingleTransaction ==
    (last.op = "claim" /\ last.error \in {"", "tx_rejected"}) =>
        LET p == last.claim IN
        /\ Len(last.sent) = 1 /\ last.sent = last.batch
        /\ Len(last.sent[1].actions) = 1
        /\ last.sent[1].receiverId = receiverId
        /\ receiverId = contractId
        /\ last.signedBy = contractAccount /\ contractAccount = contractId
        /\ <<networkId, contractId, p.secretKey>> \in keyStore.keys
        /\ \A e \in keyStore.keys :
              (e[1] = networkId /\ e[2] = contractId) => e[3] = p.secretKey
        /\ LET a == last.sent[1].actions[1] IN
           /\ a.deposit = -1
           /\ IF p.newAccountId # Undefined
              THEN /\ a.methodName = "create_account_and_claim"
                   /\ a.new_account_id = p.newAccountId
                   /\ a.new_public_key = p.newPublicKey
                   /\ a.account_id = Undefined
              ELSE /\ a.methodName = "claim"
                   /\ a.account_id = p.accountId
                   /\ a.new_account_id = Undefined

C18_Witness ==
    /\ last.op = "claim" /\ last.error = ""
    /\ last.claim.accountId = "alice" /\ last.claim.newAccountId = "carol"
    /\ last.sent[1].actions[1].methodName = "create_account_and_claim"
    /\ fundingAccount # Undefined

\* C19: addKeys called with more than 2 nftTokenIds fails with an error and
\* dispatches no transaction at all; with 1 or 2 token ids a call that goes
\* through sends exactly one nft_transfer_call per token id.
C19_NftTokenIdLimit ==
    IsAddKeys =>
        /\ last.nftTokenIds > 2 => (last.error # "" /\ last.sent = <<>>)
        /\ (last.nftTokenIds \in 1..2 /\ last.error = "") =>
              Cardinality({i \in DOMAIN last.sent :
                             MethodOf(last.sent[i]) = "nft_transfer_call"})
                = last.nftTokenIds

C19_Witness ==
    /\ IsAddKeys /\ last.impl = "part_005" /\ last.nftTokenIds = 3
    /\ last.estimated /\ last.error = "too_many_nfts" /\ last.sent = <<>>

\* C20: every transaction addKeys and deleteKeys dispatch is signed by the
\* passed account when one is given, else by the passed wallet, else by the
\* process-wide funder; the funder does not sign when an account or wallet is
\* passed; and where the operation checks ownership, it checks it against
\* that signer.
C20_SignerPrecedence ==
    (IsKeyOp /\ last.sent # <<>>) =>
        LET expected == IF last.account # Undefined THEN last.account
                        ELSE IF last.wallet # Undefined THEN last.wallet
                        ELSE fundingAccount
        IN
        /\ last.signedBy = expected
        /\ ~DefaultSigner => last.signedBy \in {last.account, last.wallet}
        /\ last.impl = "part_005" => last.drop.owner_id = accountIdOf(last.signedBy)

\* The same, for calls that are not given an account and a wallet at once.
C20_OneSignerPassed ==
    (last.account = Undefined \/ last.wallet = Undefined) => C20_SignerPrecedence

C20_Witness ==
    /\ IsKeyOp /\ last.sent # <<>> /\ last.account = "alice"
    /\ last.wallet = Undefined /\ fundingAccount = "bob"
    /\ last.signedBy = "alice"

\* C21: getAccountFromMap hands the network a single view call,
\* get_account_id on the mapping contract of the network, whose only
\* argument is the public key derived from the secret key: the secret key is
\* in no part of it, and the call any other secret key with the same public
\* key gives rise to is the same call.
C21_LookupHidesSecretKey ==
    (last.op = "getAccountFromMap" /\ last.viewCalls # <<>>) =>
        LET v == last.viewCalls[1]
            pk == getPubFromSecret(last.secretKey)
        IN
        /\ Len(last.viewCalls) = 1 /\ last.sent = <<>>
        /\ v.contractId = accountMappingContract(networkId)
        /\ v.methodName = "get_account_id"
        /\ v.args = {<<"pk", pk>>}
        /\ \A a \in v.args : a[2] \notin LookupSecretKeys
        /\ \A other \in LookupSecretKeys :
              getPubFromSecret(other) = pk =>
                  getAccountFromMapCall(accountMappingContract(networkId), other) = v

C21_Witness ==
    /\ last.op = "getAccountFromMap" /\ last.secretKey = "sk_trial"
    /\ last.viewCalls # <<>> /\ last.returned = "alice"
    /\ last.viewCalls[1].args = {<<"pk", getPubFromSecret("ed25519:sk_trial")>>}

C23_RefundAssetsFirst ==
    (IsDeleteKeys /\ last.batch # <<>>) =>
        LET a == last.batch[1].actions
            d == last.drop
            refunds == {i \in DOMAIN a : a[i].methodName = "refund_assets"}
            deletes == {i \in DOMAIN a : a[i].methodName = "delete_keys"}
        IN
        /\ Len(last.batch) = 1
        /\ last.batch[1].receiverId = receiverId
        /\ last.sent \in {<<>>, last.batch}
        /\ (refunds # {}) <=>
              ((d.ft.contract_id # Undefined \/ d.nft.contract_id # Undefined)
               /\ d.registered_uses > 0)
        /\ refunds \subseteq {1}
        /\ Cardinality(deletes) = 1
        /\ \A i \in refunds, j \in deletes : i < j
        /\ \A i \in refunds \cup deletes : a[i].drop_id = d.drop_id

C23_Witness ==
    /\ IsDeleteKeys /\ last.error = "" /\ ~last.withdrawBalance
    /\ last.drop.nft.contract_id = NftContract
    /\ last.drop.registered_uses = MaxRegisteredUses
    /\ Len(last.sent) = 1 /\ Len(last.sent[1].actions) = 2
    /\ last.sent[1].actions[1].methodName = "refund_assets"
    /\ last.sent[1].actions[2].methodName = "delete_keys"

\* The addKeys of part_005: it takes basePassword and passwordProtectedUses
\* and checks the contract in use.
IsAddKeysPart005 == IsAddKeys /\ last.impl = "part_005"

C24_WitnessAtLimit ==
    /\ IsAddKeysPart005 /\ last.basePassword # Undefined
    /\ last.numKeys = PASSWORD_KEY_LIMIT /\ last.error = ""
    /\ ~last.passwordProtectedUses.given
    /\ last.drop.uses_per_key = MaxUsesPerKey
    /\ Len(last.sent[1].actions[1].passwords_per_use) = PASSWORD_KEY_LIMIT
    /\ Len(last.sent[1].actions[1].passwords_per_use[1]) = MaxUsesPerKey

\* C25: every nft_transfer_call transaction addKeys builds or sends for an
\* NFT drop is addressed to the nft contract_id of the drop information,
\* never to undefined or to another contract.
C25_NftContractId ==
    (IsAddKeys /\ last.drop.nft.contract_id # Undefined) =>
        \A txs \in {last.batch, last.sent} :
            \A i \in DOMAIN txs :
                MethodOf(txs[i]) = "nft_transfer_call" =>
                    /\ txs[i].receiverId # Undefined
                    /\ txs[i].receiverId = last.drop.nft.contract_id

\* addKeys of keys.ts reads nftData.contract_id.
C25_Witness ==
    /\ IsAddKeys /\ last.impl = "keys.ts" /\ last.error = ""
    /\ last.drop.nft.contract_id = NftContract /\ last.nftTokenIds = 2
    /\ Len(last.sent) = 3
    /\ last.sent[3].receiverId = NftContract
    /\ MethodOf(last.sent[3]) = "nft_transfer_call"

\* The operations of the keys module that check the contract in use.
IsGatedKeyOp == IsAddKeysPart005 \/ IsDeleteKeys

C27_ClaimSignedWithOwnKey ==
    \A p \in ClaimCallers :
        claimCalls[p].pc = "signed" =>
            claimCalls[p].signedWith = claimCalls[p].secretKey

\* A call signed with its own key while the other call, with another key,
\* was suspended at its key-store write.
C27_Witness ==
    \E p, q \in ClaimCallers :
        /\ p # q
        /\ claimCalls[p].pc = "signed"
        /\ claimCalls[p].signedWith = claimCalls[p].secretKey
        /\ claimCalls[q].pc = "setKey"
        /\ claimCalls[q].secretKey # claimCalls[p].secretKey

\* C28: over the successful addKeys calls on a drop, whether they were
\* given the dropId or a drop object fetched earlier, no meta-entropy
\* string "{drop_id}_{n}" is used with the same root entropy by two calls,
\* and no public key is submitted to the drop by two calls.
C28_NoMetaEntropyReuse ==
    /\ ledger.reusedMeta = {}
    /\ ledger.resubmitted = {}

\* Two successful calls by dropId with the same root entropy: the second
\* numbers its key from the next_key_id the first left.
C28_Witness ==
    /\ IsAddKeys /\ last.error = "" /\ last.views = 1
    /\ last.drop.next_key_id = 1 /\ ledger.next_key_id = MaxNextKeyId
    /\ last.metaEntropy = <<<<DropId, 1>>>>
    /\ <<last.rootEntropyUsed, <<DropId, 0>>>> \in ledger.usedMeta
    /\ ledger.reusedMeta = {} /\ ledger.resubmitted = {}

=============================================================================
